---- MODULE Spec2Model ----
(***************************************************************************)
(* A model of api-doc-enum.py: the document classifier, the Postman and    *)
(* Swagger extractors, the request-body parameter counter, the directory   *)
(* scan and the command-line report.                                       *)
(*                                                                         *)
(* A decoded JSON/YAML value is a record [kind, keys, vals, str]:          *)
(*   kind = "map"  : a dict, keys[i] -> vals[i] in insertion order         *)
(*   kind = "seq"  : a list, vals                                          *)
(*   kind = "str"  : a string, str                                         *)
(*   kind = "num"  : a number (its value never matters to the program)     *)
(*   kind = "null" : None                                                  *)
(* A Python call yields [exc, val]: exc = "" and the returned value, or    *)
(* the name of the exception it raised.                                    *)
(***************************************************************************)
EXTENDS Integers, Sequences, FiniteSets, TLC

VARIABLES listing, idx, results, errors, cursor, stdout, pc, arg, ret

vars == <<listing, idx, results, errors, cursor, stdout, pc, arg, ret>>

batchVars == <<listing, idx, results, errors, cursor, stdout>>

-----------------------------------------------------------------------------
(* Decoded values *)

Null == [kind |-> "null", keys |-> <<>>, vals |-> <<>>, str |-> ""]

Num == [kind |-> "num", keys |-> <<>>, vals |-> <<>>, str |-> ""]

Str(s) == [kind |-> "str", keys |-> <<>>, vals |-> <<>>, str |-> s]

List(vs) == [kind |-> "seq", keys |-> <<>>, vals |-> vs, str |-> ""]

Dict(ks, vs) == [kind |-> "map", keys |-> ks, vals |-> vs, str |-> ""]

EmptyDict == Dict(<<>>, <<>>)

Ok(v) == [exc |-> "", val |-> v]

Raise(e) == [exc |-> e, val |-> Null]

Raised(r) == r.exc # ""

-----------------------------------------------------------------------------
(* Python's built-in operations on decoded values *)

\* isinstance(v, dict)
IsDict(v) == v.kind = "map"

\* k in d, for a dict d
HasKey(d, k) == \E i \in 1..Len(d.keys) : d.keys[i] = k

\* d[k], for a dict d that has the key k
Get(d, k) == d.vals[CHOOSE i \in 1..Len(d.keys) : d.keys[i] = k]

\* k in s, for strings: s contains k as a substring
IsSubstring(k, s) ==
    \E i \in 1..(Len(s) - Len(k) + 1) : SubSeq(s, i, i + Len(k) - 1) = k

\* s.endswith(suffix)
EndsWith(s, suffix) ==
    /\ Len(s) >= Len(suffix)
    /\ SubSeq(s, Len(s) - Len(suffix) + 1, Len(s)) = suffix

\* `k in v` raises TypeError unless v is a container
InRaises(v) == v.kind \notin {"map", "seq", "str"}

\* `k in v` for a string k and a container v
In(k, v) ==
    CASE v.kind = "map" -> HasKey(v, k)
      [] v.kind = "seq" -> \E i \in 1..Len(v.vals) : v.vals[i] = Str(k)
      [] v.kind = "str" -> IsSubstring(k, v.str)
      [] OTHER -> FALSE

\* v[k] for a string k: KeyError on a dict without k, TypeError on anything
\* that is not a dict (list and string indices must be integers)
Subscript(v, k) ==
    IF v.kind = "map"
    THEN IF HasKey(v, k) THEN Ok(Get(v, k)) ELSE Raise("KeyError")
    ELSE Raise("TypeError")

\* len(v): TypeError for None and numbers
PyLen(v) ==
    CASE v.kind = "map" -> Ok(Len(v.keys))
      [] v.kind = "seq" -> Ok(Len(v.vals))
      [] v.kind = "str" -> Ok(Len(v.str))
      [] OTHER -> Raise("TypeError")

\* the elements `for x in v` visits: the keys of a dict, the elements of a
\* list, the characters of a string
Iter(v) ==
    CASE v.kind = "map" -> [i \in 1..Len(v.keys) |-> Str(v.keys[i])]
      [] v.kind = "seq" -> v.vals
      [] v.kind = "str" -> [i \in 1..Len(v.str) |-> Str(SubSeq(v.str, i, i))]
      [] OTHER -> <<>>

LowerLetters == "abcdefghijklmnopqrstuvwxyz"

UpperLetters == "ABCDEFGHIJKLMNOPQRSTUVWXYZ"

UpperChar(c) ==
    IF \E i \in 1..Len(LowerLetters) : SubSeq(LowerLetters, i, i) = c
    THEN LET i == CHOOSE j \in 1..Len(LowerLetters) : SubSeq(LowerLetters, j, j) = c
         IN  SubSeq(UpperLetters, i, i)
    ELSE c

RECURSIVE Upper(_)
\* str.upper()
Upper(s) ==
    IF Len(s) = 0 THEN ""
    ELSE UpperChar(SubSeq(s, 1, 1)) \o Upper(SubSeq(s, 2, Len(s)))

\* d[k] = v on a Python dict kept as a function: adds the key when absent
DictSet(d, k, v) == [x \in DOMAIN d \cup {k} |-> IF x = k THEN v ELSE d[x]]

-----------------------------------------------------------------------------
(* identify_api_document *)

\* the classifier with the two tests in the other order
identify_postman_first(content) ==
    IF InRaises(content) THEN Raise("TypeError")
    ELSE IF In("info", content) /\ In("item", content) THEN Ok("postman")
    ELSE IF In("swagger", content) \/ In("openapi", content) THEN Ok("swagger")
    ELSE Ok("unknown")

identify_api_document(content) ==
    IF InRaises(content) THEN Raise("TypeError")
    ELSE IF In("swagger", content) \/ In("openapi", content) THEN Ok("swagger")
    ELSE IF In("info", content) /\ In("item", content) THEN Ok("postman")
    ELSE Ok("unknown")

-----------------------------------------------------------------------------
(* The summary record both extractors start from *)

FixedMethods == {"GET", "POST", "PUT", "DELETE", "PATCH", "HEAD", "OPTIONS", "UNKNOWN"}

NewDetails ==
    ("Total Requests/Endpoints" :> 0)
    @@ ("HTTP Methods Distribution" :> [m \in FixedMethods |-> 0])
    @@ ("Total Parameters" :> 0)

\* len(v[k])
LenOfSubscript(v, k) ==
    LET s == Subscript(v, k) IN IF Raised(s) THEN s ELSE PyLen(s.val)

-----------------------------------------------------------------------------
(* extract_postman_items *)

RECURSIVE extract_postman_items(_)
RECURSIVE ExtractLoop(_, _, _)

\* the loop with an item's own request appended after those of its sub-items
ExtractLoop_children_first(items, i, requests) ==
    IF i > Len(items) THEN Ok(requests)
    ELSE
      LET item == items[i] IN
      IF InRaises(item) THEN Raise("TypeError")
      ELSE
        LET req == IF In("request", item) THEN Subscript(item, "request") ELSE Ok(Null)
            own == IF In("request", item) THEN <<req.val>> ELSE <<>>
            sub == IF In("item", item) THEN Subscript(item, "item") ELSE Ok(Null)
        IN
        IF Raised(req) THEN req
        ELSE IF Raised(sub) THEN sub
        ELSE IF In("item", item)
        THEN LET rec == extract_postman_items(sub.val) IN
             IF Raised(rec) THEN rec
             ELSE ExtractLoop(items, i + 1, requests \o rec.val \o own)
        ELSE ExtractLoop(items, i + 1, requests \o own)

\* the body of `for item in items_list`, from the i-th element on
ExtractLoop(items, i, requests) ==
    IF i > Len(items) THEN Ok(requests)
    ELSE
      LET item == items[i] IN
      IF InRaises(item) THEN Raise("TypeError")
      ELSE
        LET req == IF In("request", item) THEN Subscript(item, "request") ELSE Ok(Null)
        IN
        IF Raised(req) THEN req
        ELSE
          LET requests1 == IF In("request", item) THEN Append(requests, req.val)
                           ELSE requests
              sub == IF In("item", item) THEN Subscript(item, "item") ELSE Ok(Null)
          IN
          IF Raised(sub) THEN sub
          ELSE IF In("item", item)
          THEN LET rec == extract_postman_items(sub.val) IN
               IF Raised(rec) THEN rec
               ELSE ExtractLoop(items, i + 1, requests1 \o rec.val)
          ELSE ExtractLoop(items, i + 1, requests1)

extract_postman_items(items_list) ==
    IF InRaises(items_list) THEN Raise("TypeError")
    ELSE ExtractLoop(Iter(items_list), 1, <<>>)

-----------------------------------------------------------------------------
(* parse_postman_content *)

RECURSIVE RequestLoop(_, _, _)
\* the body of `for request in requests`, from the i-th request on
RequestLoop(requests, i, details) ==
    IF i > Len(requests) THEN Ok(details)
    ELSE
      LET request == requests[i] IN
      IF IsDict(request) /\ HasKey(request, "method")
      THEN
        IF Get(request, "method").kind # "str" THEN Raise("AttributeError")
        ELSE
          LET method == Upper(Get(request, "method").str)
              dist == details["HTTP Methods Distribution"]
              count == IF method \in DOMAIN dist THEN dist[method] ELSE 0
              details1 == [details EXCEPT !["HTTP Methods Distribution"] =
                                              DictSet(dist, method, count + 1)]
          IN
          IF /\ HasKey(request, "url")
             /\ IsDict(Get(request, "url"))
             /\ HasKey(Get(request, "url"), "query")
          THEN LET n == PyLen(Get(Get(request, "url"), "query")) IN
               IF Raised(n) THEN n
               ELSE RequestLoop(requests, i + 1,
                        [details1 EXCEPT !["Total Parameters"] = @ + n.val])
          ELSE RequestLoop(requests, i + 1, details1)
      ELSE RequestLoop(requests, i + 1, details)

parse_postman_content(content) ==
    LET items == Subscript(content, "item") IN
    IF Raised(items) THEN items
    ELSE
      LET requests == extract_postman_items(items.val) IN
      IF Raised(requests) THEN requests
      ELSE RequestLoop(requests.val, 1,
               [NewDetails EXCEPT !["Total Requests/Endpoints"] = Len(requests.val)])

-----------------------------------------------------------------------------
(* count_schema_parameters, count_request_body_parameters *)

\* the schema count with "items" tested before "properties"
count_schema_items_first(schema) ==
    IF InRaises(schema) THEN Raise("TypeError")
    ELSE IF In("items", schema)
    THEN LET items == Subscript(schema, "items") IN
         IF Raised(items) THEN items
         ELSE IF InRaises(items.val) THEN Raise("TypeError")
         ELSE IF In("properties", items.val) THEN LenOfSubscript(items.val, "properties")
         ELSE IF In("$ref", items.val) THEN Ok(1)
         ELSE Ok(0)
    ELSE IF In("properties", schema) THEN LenOfSubscript(schema, "properties")
    ELSE Ok(0)

count_schema_parameters(schema) ==
    IF InRaises(schema) THEN Raise("TypeError")
    ELSE IF In("properties", schema) THEN LenOfSubscript(schema, "properties")
    ELSE IF In("items", schema)
    THEN LET items == Subscript(schema, "items") IN
         IF Raised(items) THEN items
         ELSE IF InRaises(items.val) THEN Raise("TypeError")
         ELSE IF In("properties", items.val) THEN LenOfSubscript(items.val, "properties")
         ELSE IF In("$ref", items.val) THEN Ok(1)
         ELSE Ok(0)
    ELSE Ok(0)

RECURSIVE BodyLoop(_, _, _)
\* the body of `for content_type, schema in request_body["content"].items()`
BodyLoop(media, i, total_parameters) ==
    IF i > Len(media) THEN Ok(total_parameters)
    ELSE
      LET schema == media[i] IN
      IF InRaises(schema) THEN Raise("TypeError")
      ELSE IF In("schema", schema)
      THEN LET s == Subscript(schema, "schema") IN
           IF Raised(s) THEN s
           ELSE LET n == count_schema_parameters(s.val) IN
                IF Raised(n) THEN n
                ELSE BodyLoop(media, i + 1, total_parameters + n.val)
      ELSE BodyLoop(media, i + 1, total_parameters)

count_request_body_parameters(request_body) ==
    IF InRaises(request_body) THEN Raise("TypeError")
    ELSE IF In("content", request_body)
    THEN LET content == Subscript(request_body, "content") IN
         IF Raised(content) THEN content
         ELSE IF ~IsDict(content.val) THEN Raise("AttributeError")
         ELSE BodyLoop(content.val.vals, 1, 0)
    ELSE Ok(0)

-----------------------------------------------------------------------------
(* parse_swagger_content *)

\* lines 123-127: the parameters of one counted operation
OperationParameters(operation) ==
    IF InRaises(operation) THEN Raise("TypeError")
    ELSE
      LET p == IF In("parameters", operation)
               THEN LenOfSubscript(operation, "parameters") ELSE Ok(0)
      IN
      IF Raised(p) THEN p
      ELSE IF In("requestBody", operation)
      THEN LET rb == Subscript(operation, "requestBody") IN
           IF Raised(rb) THEN rb
           ELSE LET b == count_request_body_parameters(rb.val) IN
                IF Raised(b) THEN b ELSE Ok(p.val + b.val)
      ELSE p

RECURSIVE MethodLoop(_, _, _)
\* the body of `for method, operation in path_info.items()`
MethodLoop(path_info, j, details) ==
    IF j > Len(path_info.keys) THEN Ok(details)
    ELSE
      LET method == Upper(path_info.keys[j])
          operation == path_info.vals[j]
          dist == details["HTTP Methods Distribution"]
      IN
      IF method \in DOMAIN dist
      THEN LET total_parameters == OperationParameters(operation) IN
           IF Raised(total_parameters) THEN total_parameters
           ELSE MethodLoop(path_info, j + 1,
                  [details EXCEPT
                     !["HTTP Methods Distribution"] = [dist EXCEPT ![method] = @ + 1],
                     !["Total Requests/Endpoints"] = @ + 1,
                     !["Total Parameters"] = @ + total_parameters.val])
      ELSE MethodLoop(path_info, j + 1, details)

RECURSIVE PathLoop(_, _, _)
\* the body of `for path, path_info in paths.items()`
PathLoop(paths, i, details) ==
    IF i > Len(paths.keys) THEN Ok(details)
    ELSE
      LET path_info == paths.vals[i] IN
      IF ~IsDict(path_info) THEN Raise("AttributeError")
      ELSE LET d == MethodLoop(path_info, 1, details) IN
           IF Raised(d) THEN d ELSE PathLoop(paths, i + 1, d.val)

parse_swagger_content(content) ==
    IF ~IsDict(content) THEN Raise("AttributeError")
    ELSE
      LET paths == IF HasKey(content, "paths") THEN Get(content, "paths") ELSE EmptyDict
      IN
      IF ~IsDict(paths) THEN Raise("AttributeError")
      ELSE PathLoop(paths, 1, NewDetails)

-----------------------------------------------------------------------------
(* Helpers for building bounded sets of inputs *)

\* all sequences over S of length 0..n
SeqsUpTo(S, n) == UNION {[1..k -> S] : k \in 0..n}

\* the sequences of SeqsUpTo(S, n) without a repeated element
DistinctSeqsUpTo(S, n) ==
    {q \in SeqsUpTo(S, n) : \A i, j \in 1..Len(q) : i # j => q[i] # q[j]}

\* the subsequence of `order` whose elements are in S
Restrict(order, S) == SelectSeq(order, LAMBDA k : k \in S)

NoReturn == Ok(Null)

NoBatch ==
    /\ listing = <<>>
    /\ idx = 0
    /\ results = <<>>
    /\ errors = <<>>
    /\ cursor = 0
    /\ stdout = <<>>

-----------------------------------------------------------------------------
(* SpecIdentify: identify_api_document applied to one decoded document *)

MaxListLen == 2

TopKeys == <<"swagger", "openapi", "info", "item", "paths">>

TopValue(k) ==
    CASE k = "swagger" -> Str("2.0")
      [] k = "openapi" -> Str("3.0.0")
      [] k = "item" -> List(<<>>)
      [] OTHER -> EmptyDict

TopLevelDicts ==
    {LET ks == Restrict(TopKeys, S)
     IN  Dict(ks, [i \in 1..Len(ks) |-> TopValue(ks[i])]) :
       S \in SUBSET {TopKeys[i] : i \in 1..Len(TopKeys)}}

TopLevelStrings ==
    {Str(""), Str("swagger"), Str("an openapi file"), Str("info, item"), Str("text")}

TopLevelLists(maxLen) ==
    {List(q) : q \in SeqsUpTo({Str("swagger"), Str("info"), Str("item"), Num}, maxLen)}

IdentifyInputs(maxLen) ==
    {Null, Num} \cup TopLevelStrings \cup TopLevelLists(maxLen) \cup TopLevelDicts

InitIdentify ==
    /\ NoBatch
    /\ arg \in IdentifyInputs(MaxListLen)
    /\ ret = NoReturn
    /\ pc = "call"

CallIdentify ==
    /\ pc = "call"
    /\ ret' = identify_api_document(arg)
    /\ pc' = "returned"
    /\ UNCHANGED <<batchVars, arg>>

NextIdentify == CallIdentify

SpecIdentify == InitIdentify /\ [][NextIdentify]_vars

KeySet(d) == {d.keys[i] : i \in 1..Len(d.keys)}

\* C1: for a document that is a mapping, the classifier returns "swagger"
\* when the top-level keys contain "swagger" or "openapi", otherwise
\* "postman" when they contain both "info" and "item", otherwise "unknown";
\* a document matching both heuristics is "swagger".
C1_ClassifierPrecedence ==
    (pc = "returned" /\ IsDict(arg)) =>
        /\ ret.exc = ""
        /\ (KeySet(arg) \cap {"swagger", "openapi"} # {}) => ret.val = "swagger"
        /\ (/\ KeySet(arg) \cap {"swagger", "openapi"} = {}
            /\ {"info", "item"} \subseteq KeySet(arg)) => ret.val = "postman"
        /\ (/\ KeySet(arg) \cap {"swagger", "openapi"} = {}
            /\ ~({"info", "item"} \subseteq KeySet(arg))) => ret.val = "unknown"

C1_Witness ==
    /\ pc = "returned"
    /\ IsDict(arg)
    /\ {"swagger", "info", "item"} \subseteq KeySet(arg)
    /\ ret.exc = ""
    /\ ret.val = "swagger"

\* C7: for a document whose top-level value is not a mapping the classifier
\* returns "unknown" and does not raise.
C7_NonMappingIsUnknown ==
    (pc = "returned" /\ ~IsDict(arg)) => (ret.exc = "" /\ ret.val = "unknown")

-----------------------------------------------------------------------------
(* SpecExtract: extract_postman_items applied to one item tree *)

\* the largest number of items (folders and requests) in a generated tree
MaxNodes == 4

RECURSIVE PathName(_)
PathName(path) ==
    IF path = <<>> THEN ""
    ELSE PathName(SubSeq(path, 1, Len(path) - 1)) \o "/" \o ToString(path[Len(path)])

\* the request of the item at `path`: no two items of a tree share one
RequestAt(path) == Dict(<<"name">>, <<Str(PathName(path))>>)

\* an item at `path`: a "request" key when hasRequest, an "item" key when hasItem
MkItem(path, hasRequest, hasItem, children) ==
    LET ks == (IF hasRequest THEN <<"request">> ELSE <<>>)
              \o (IF hasItem THEN <<"item">> ELSE <<>>)
        vs == (IF hasRequest THEN <<RequestAt(path)>> ELSE <<>>)
              \o (IF hasItem THEN <<List(children)>> ELSE <<>>)
    IN  Dict(ks, vs)

RECURSIVE Forests(_, _, _)
RECURSIVE ItemsOfSize(_, _)

\* the items at `path` whose subtree has exactly k items
ItemsOfSize(k, path) ==
    IF k = 1
    THEN {MkItem(path, r, f, <<>>) : r \in BOOLEAN, f \in BOOLEAN}
    ELSE {MkItem(path, x[1], TRUE, x[2]) : x \in BOOLEAN \X Forests(k - 1, path, 1)}

\* the item lists under `prefix`, starting at position pos, with exactly n items
Forests(n, prefix, pos) ==
    IF n = 0 THEN {<<>>}
    ELSE UNION {{<<x[1]>> \o x[2] :
                   x \in ItemsOfSize(k, Append(prefix, pos))
                         \X Forests(n - k, prefix, pos + 1)} : k \in 1..n}

ExtractInputs(maxNodes) ==
    UNION {{List(f) : f \in Forests(n, <<>>, 1)} : n \in 0..maxNodes}

InitExtract ==
    /\ NoBatch
    /\ arg \in ExtractInputs(MaxNodes)
    /\ ret = NoReturn
    /\ pc = "call"

CallExtract ==
    /\ pc = "call"
    /\ ret' = extract_postman_items(arg)
    /\ pc' = "returned"
    /\ UNCHANGED <<batchVars, arg>>

NextExtract == CallExtract

SpecExtract == InitExtract /\ [][NextExtract]_vars

RECURSIVE RequestNodes(_, _)
\* the items of an item list that have a "request" key, each with its
\* position path in the tree
RequestNodes(items, prefix) ==
    UNION {LET item == items[i]
               path == Append(prefix, i)
           IN  (IF HasKey(item, "request")
                THEN {[path |-> path, req |-> Get(item, "request")]} ELSE {})
               \cup (IF HasKey(item, "item")
                     THEN RequestNodes(Get(item, "item").vals, path) ELSE {}) :
             i \in 1..Len(items)}

\* p comes before q in depth-first pre-order: p is an ancestor of q, or at
\* the first position where they differ p is the earlier sibling
PreOrderBefore(p, q) ==
    \E i \in 1..Len(q) :
        /\ Len(p) >= i - 1
        /\ \A j \in 1..(i - 1) : p[j] = q[j]
        /\ (Len(p) = i - 1 \/ p[i] < q[i])

Positions(out, v) == {i \in 1..Len(out) : out[i] = v}

\* C3: for an item tree of any depth the extractor returns the request of
\* every item that has one exactly once, nothing else, in depth-first
\* pre-order.
C3_FlattenPreOrder ==
    pc = "returned" =>
        LET nodes == RequestNodes(arg.vals, <<>>) IN
        /\ ret.exc = ""
        /\ Len(ret.val) = Cardinality(nodes)
        /\ \A n \in nodes : Cardinality(Positions(ret.val, n.req)) = 1
        /\ \A i \in 1..Len(ret.val) : \E n \in nodes : n.req = ret.val[i]
        /\ \A n, m \in nodes :
             PreOrderBefore(n.path, m.path) =>
               \A i \in Positions(ret.val, n.req), j \in Positions(ret.val, m.req) : i < j

C3_Witness ==
    /\ pc = "returned"
    /\ ret.exc = ""
    /\ Len(ret.val) >= 3
    /\ \E n, m \in RequestNodes(arg.vals, <<>>) :
         /\ Len(n.path) >= 3
         /\ Len(m.path) = 1
         /\ PreOrderBefore(n.path, m.path)

-----------------------------------------------------------------------------
(* SpecBody: count_request_body_parameters applied to one requestBody *)

\* the largest number of entries of a "properties" mapping
MaxProps == 2

\* the largest number of media types under "content"
MaxMedia == 3

PropNames == <<"x", "y", "z", "u", "v">>

\* a mapping with n entries
Properties(n) == Dict(SubSeq(PropNames, 1, n), [i \in 1..n |-> EmptyDict])

Ref == Dict(<<"$ref">>, <<Str("#/components/schemas/Foo")>>)

\* the values of an "items" key: with or without "properties" and "$ref"
ItemsValues(maxProps) ==
    {EmptyDict, Ref,
     Dict(<<"properties">>, <<Properties(maxProps)>>),
     Dict(<<"$ref", "properties">>, <<Str("#/components/schemas/Foo"), Properties(1)>>)}

Schemas(maxProps) ==
    {Dict(<<"type">>, <<Str("object")>>)}
    \cup {Dict(<<"properties">>, <<Properties(n)>>) : n \in 0..maxProps}
    \cup {Dict(<<"items">>, <<it>>) : it \in ItemsValues(maxProps)}
    \cup {Dict(<<"items", "properties">>, <<Ref, Properties(maxProps)>>)}

MediaObjects(maxProps) ==
    {EmptyDict} \cup {Dict(<<"schema">>, <<sch>>) : sch \in Schemas(maxProps)}

MediaTypes == <<"application/json", "application/xml", "text/plain", "multipart/form-data">>

RequestBodies(maxMedia, maxProps) ==
    {EmptyDict, Dict(<<"description">>, <<Str("content")>>)}
    \cup UNION {{Dict(<<"content">>, <<Dict(SubSeq(MediaTypes, 1, n), m)>>) :
                   m \in [1..n -> MediaObjects(maxProps)]} : n \in 0..maxMedia}

InitBody ==
    /\ NoBatch
    /\ arg \in RequestBodies(MaxMedia, MaxProps)
    /\ ret = NoReturn
    /\ pc = "call"

CallCountBody ==
    /\ pc = "call"
    /\ ret' = count_request_body_parameters(arg)
    /\ pc' = "returned"
    /\ UNCHANGED <<batchVars, arg>>

NextBody == CallCountBody

SpecBody == InitBody /\ [][NextBody]_vars

\* the score of one schema, as the description states it
SchemaScore(schema) ==
    IF "properties" \in KeySet(schema) THEN Len(Get(schema, "properties").keys)
    ELSE IF "items" \in KeySet(schema)
    THEN LET items == Get(schema, "items") IN
         IF "properties" \in KeySet(items) THEN Len(Get(items, "properties").keys)
         ELSE IF "$ref" \in KeySet(items) THEN 1
         ELSE 0
    ELSE 0

RECURSIVE SumOver(_, _)
\* the sum of f[x] over the finite set S
SumOver(f, S) ==
    IF S = {} THEN 0
    ELSE LET x == CHOOSE y \in S : TRUE IN f[x] + SumOver(f, S \ {x})

\* C10: the request-body count is 0 without a "content" key, and otherwise
\* the sum, over the media types that have a "schema", of that schema's
\* score: the size of "properties" when present, else for "items" the size
\* of items.properties, else 1 for items.$ref, else 0.
C10_RequestBodyCount ==
    pc = "returned" =>
        /\ ret.exc = ""
        /\ ~HasKey(arg, "content") => ret.val = 0
        /\ HasKey(arg, "content") =>
             LET media == Get(arg, "content")
                 withSchema == {i \in 1..Len(media.vals) : HasKey(media.vals[i], "schema")}
                 score == [i \in withSchema |-> SchemaScore(Get(media.vals[i], "schema"))]
             IN  ret.val = SumOver(score, withSchema)

\* two media types with a schema: one with "properties" and "items", which
\* counts its properties, and {items: {$ref}}, which counts 1
C10_Witness ==
    /\ pc = "returned"
    /\ HasKey(arg, "content")
    /\ LET media == Get(arg, "content") IN
       /\ Len(media.vals) >= 2
       /\ HasKey(media.vals[1], "schema")
       /\ KeySet(Get(media.vals[1], "schema")) = {"properties", "items"}
       /\ Len(Get(Get(media.vals[1], "schema"), "properties").keys) = MaxProps
       /\ HasKey(media.vals[2], "schema")
       /\ Get(media.vals[2], "schema") = Dict(<<"items">>, <<Ref>>)
       /\ \A i \in 3..Len(media.vals) : ~HasKey(media.vals[i], "schema")
    /\ ret = Ok(MaxProps + 1)

-----------------------------------------------------------------------------
(* SpecSummary: parse_postman_content and parse_swagger_content, each     *)
(* applied to one document                                                 *)

\* the largest number of items at the top level of a generated collection
MaxItems == 2

\* the largest number of entries under "paths"
MaxPaths == 2

\* the largest number of entries under one path
MaxMethods == 2

QueryList == List(<<Dict(<<"key">>, <<Str("a")>>), Dict(<<"key">>, <<Str("b")>>)>>)

PostmanMethods == {Str("get"), Str("trace"), Null}

PostmanUrls ==
    {Str("http://host/a?query=1"),
     Dict(<<"raw", "query">>, <<Str("http://host/a?a=1&b=2"), QueryList>>),
     Dict(<<"query">>, <<Null>>)}

PostmanRequests ==
    {Str("http://host/method"), EmptyDict}
    \cup {Dict(<<"method">>, <<m>>) : m \in PostmanMethods}
    \cup {Dict(<<"url">>, <<u>>) : u \in PostmanUrls}
    \cup {Dict(<<"method", "url">>, <<x[1], x[2]>>) : x \in PostmanMethods \X PostmanUrls}

\* a request item for every request, and a folder holding two request items
PostmanItems ==
    {Dict(<<"name", "request">>, <<Str("r"), r>>) : r \in PostmanRequests}
    \cup {Dict(<<"name", "item">>,
               <<Str("folder"),
                 List(<<Dict(<<"request">>, <<Dict(<<"url">>, <<u>>)>>),
                        Dict(<<"request">>, <<Dict(<<"method">>, <<Str("Post")>>)>>)>>)>>) :
            u \in PostmanUrls}

PostmanInputs(maxItems) ==
    {Dict(<<"info", "item">>, <<EmptyDict, List(q)>>) : q \in SeqsUpTo(PostmanItems, maxItems)}

OperationWithParameters ==
    Dict(<<"parameters", "requestBody">>,
         <<QueryList,
           Dict(<<"content">>,
                <<Dict(<<"application/json">>,
                       <<Dict(<<"schema">>, <<Dict(<<"properties">>, <<Properties(2)>>)>>)>>)>>)>>)

MethodKeys == <<"get", "Head", "post", "trace", "parameters">>

\* the values a path may carry under each key: operations, a value that is
\* not a mapping, a method outside the fixed set, and the path-level
\* "parameters" list
EntryValues(k) ==
    CASE k = "get" -> {EmptyDict, OperationWithParameters, Null}
      [] k = "parameters" -> {QueryList}
      [] OTHER -> {EmptyDict}

\* the mappings with the keys ks, in the order of MethodKeys
PathInfosWithKeys(ks) ==
    {Dict(ks, vs) : vs \in {f \in [1..Len(ks) -> {EmptyDict, OperationWithParameters, Null, QueryList}] :
                              \A i \in 1..Len(ks) : f[i] \in EntryValues(ks[i])}}

PathInfos(maxMethods) ==
    {Null, List(<<>>)}
    \cup UNION {PathInfosWithKeys(Restrict(MethodKeys, S)) :
                  S \in {T \in SUBSET {MethodKeys[i] : i \in 1..Len(MethodKeys)} :
                           Cardinality(T) <= maxMethods}}

PathNames == <<"/a", "/b", "/c", "/d">>

PathsValues(maxPaths, maxMethods) ==
    {Null, Num, Str("/a"), List(<<>>)}
    \cup UNION {{Dict(SubSeq(PathNames, 1, n), m) : m \in [1..n -> PathInfos(maxMethods)]} :
                  n \in 0..maxPaths}

SwaggerInputs(maxPaths, maxMethods) ==
    {Dict(<<"swagger">>, <<Str("2.0")>>), Dict(<<"openapi", "info">>, <<Str("3.0.0"), EmptyDict>>)}
    \cup {Dict(<<"swagger", "paths">>, <<Str("2.0"), pv>>) : pv \in PathsValues(maxPaths, maxMethods)}

InitSummary ==
    /\ NoBatch
    /\ ret = NoReturn
    /\ \/ arg \in PostmanInputs(MaxItems) /\ pc = "call_postman"
       \/ arg \in SwaggerInputs(MaxPaths, MaxMethods) /\ pc = "call_swagger"

CallPostman ==
    /\ pc = "call_postman"
    /\ ret' = parse_postman_content(arg)
    /\ pc' = "postman_returned"
    /\ UNCHANGED <<batchVars, arg>>

CallSwagger ==
    /\ pc = "call_swagger"
    /\ ret' = parse_swagger_content(arg)
    /\ pc' = "swagger_returned"
    /\ UNCHANGED <<batchVars, arg>>

NextSummary == CallPostman \/ CallSwagger

SpecSummary == InitSummary /\ [][NextSummary]_vars

\* the (path, method) entries of a "paths" mapping whose path value is a
\* mapping, whose operation value is a mapping and whose upper-cased method
\* is one of the fixed keys
CountedOperations(paths) ==
    {x \in (1..Len(paths.vals)) \X (1..Len(MethodKeys)) :
       /\ IsDict(paths.vals[x[1]])
       /\ x[2] <= Len(paths.vals[x[1]].vals)
       /\ IsDict(paths.vals[x[1]].vals[x[2]])
       /\ Upper(paths.vals[x[1]].keys[x[2]]) \in FixedMethods}

\* C4: the Swagger extractor counts exactly the (path, method) pairs with a
\* mapping path value, a mapping operation value and a method among the
\* fixed keys; other path and operation values are skipped without raising.
C4_SwaggerCountsMappingsOnly ==
    (pc = "swagger_returned" /\ HasKey(arg, "paths") /\ IsDict(Get(arg, "paths"))) =>
        LET counted == CountedOperations(Get(arg, "paths")) IN
        /\ ret.exc = ""
        /\ ret.val["Total Requests/Endpoints"] = Cardinality(counted)
        /\ \A m \in FixedMethods :
             ret.val["HTTP Methods Distribution"][m] =
               Cardinality({x \in counted :
                  Upper(Get(arg, "paths").vals[x[1]].keys[x[2]]) = m})

\* C6: with "paths" absent or not a mapping the Swagger extractor returns
\* the empty summary and does not raise.
C6_SwaggerPathsNotMapping ==
    (pc = "swagger_returned" /\ (~HasKey(arg, "paths") \/ ~IsDict(Get(arg, "paths")))) =>
        (ret.exc = "" /\ ret.val = NewDetails)

\* len(request.url.query) when the request's url is a mapping with a query
\* that has a length, else 0
QueryLength(request) ==
    IF /\ IsDict(request)
       /\ HasKey(request, "url")
       /\ IsDict(Get(request, "url"))
       /\ HasKey(Get(request, "url"), "query")
       /\ ~Raised(PyLen(Get(Get(request, "url"), "query")))
    THEN PyLen(Get(Get(request, "url"), "query")).val
    ELSE 0

\* C5: the Postman summary's endpoint total is the number of flattened
\* requests and its parameter total is the sum of the query lengths of the
\* requests whose url is a mapping with a query, with or without a method.
C5_PostmanTotals ==
    (pc = "postman_returned" /\ ret.exc = "") =>
        LET requests == extract_postman_items(Get(arg, "item")).val
            lens == [i \in 1..Len(requests) |-> QueryLength(requests[i])]
        IN
        /\ ret.val["Total Requests/Endpoints"] = Len(requests)
        /\ ret.val["Total Parameters"] = SumOver(lens, 1..Len(requests))

\* C8: the method distribution of every summary either extractor returns
\* has exactly the fixed key set.
C8_FixedDistributionKeys ==
    (pc \in {"postman_returned", "swagger_returned"} /\ ret.exc = "") =>
        DOMAIN ret.val["HTTP Methods Distribution"] = FixedMethods

-----------------------------------------------------------------------------
(* Spec: one command-line run, analyze_directory then the report           *)
(*                                                                         *)
(* listing : what os.listdir returns, each entry with the outcome of       *)
(*           opening and decoding it (json.load or yaml.safe_load)         *)
(* idx     : the position of analyze_directory's loop in the listing       *)
(* results : the results dict, as its (file, details) entries in insertion *)
(*           order                                                         *)
(* errors  : the errors list of (file, message) pairs                      *)
(* cursor  : the position of the report's loop over results                *)
(* stdout  : the lines printed so far                                      *)
(***************************************************************************)

\* the largest number of directory entries
MaxFiles == 3

FileNames == {"a.json", "b.yaml", "c.yml", "notes.txt"}

\* file.endswith('.json') or file.endswith('.yaml') or file.endswith('.yml')
Handled(name) ==
    EndsWith(name, ".json") \/ EndsWith(name, ".yaml") \/ EndsWith(name, ".yml")

SwaggerDocument ==
    Dict(<<"openapi", "paths">>,
         <<Str("3.0.0"),
           Dict(<<"/a">>, <<Dict(<<"get", "trace">>, <<OperationWithParameters, EmptyDict>>)>>)>>)

PostmanDocument ==
    Dict(<<"info", "item">>,
         <<EmptyDict,
           List(<<Dict(<<"name", "request">>,
                       <<Str("r"), Dict(<<"method", "url">>,
                                        <<Str("trace"), Dict(<<"query">>, <<QueryList>>)>>)>>)>>)>>)

\* what opening and decoding a file can yield: a decode failure, documents
\* of each type that the extractors accept, documents of each type that
\* make them raise, an unrecognised mapping, and None (an empty YAML file)
DecodeOutcomes ==
    {Raise("DecodeError"),
     Ok(SwaggerDocument),
     Ok(Dict(<<"swagger", "paths">>, <<Str("2.0"), Null>>)),
     Ok(PostmanDocument),
     Ok(Dict(<<"info", "item">>, <<EmptyDict, Num>>)),
     Ok(EmptyDict),
     Ok(Null)}

\* the decode outcomes of the entries named `names`: an entry the loop
\* skips is never opened
OutcomesFor(names) ==
    {d \in [1..Len(names) -> DecodeOutcomes] :
       \A i \in 1..Len(names) : ~Handled(names[i]) => d[i] = Ok(EmptyDict)}

\* os.listdir: no name twice
Listings(maxFiles) ==
    UNION {{[i \in 1..Len(names) |-> [name |-> names[i], decoded |-> d[i]]] :
              d \in OutcomesFor(names)} :
             names \in DistinctSeqsUpTo(FileNames, maxFiles)}

Init ==
    /\ listing \in Listings(MaxFiles)
    /\ idx = 1
    /\ results = <<>>
    /\ errors = <<>>
    /\ cursor = 0
    /\ stdout = <<>>
    /\ pc = "scan"
    /\ arg = Null
    /\ ret = NoReturn

UnknownDetails == ("message" :> "Unknown API documentation type.")

\* lines 38-54: the try block for one decoded outcome
AnalyzeContent(decoded) ==
    IF Raised(decoded) THEN decoded
    ELSE
      LET content == decoded.val
          doc_type == identify_api_document(content)
      IN
      IF Raised(doc_type) THEN doc_type
      ELSE IF doc_type.val = "postman" THEN parse_postman_content(content)
      ELSE IF doc_type.val = "swagger" THEN parse_swagger_content(content)
      ELSE Ok(UnknownDetails)

\* results[file] = details
ResultsSet(res, file, details) ==
    IF \E i \in 1..Len(res) : res[i].file = file
    THEN [i \in 1..Len(res) |->
            IF res[i].file = file THEN [file |-> file, details |-> details] ELSE res[i]]
    ELSE Append(res, [file |-> file, details |-> details])

\* the iteration with the try block around the loop: an exception is
\* recorded and ends the scan
ProcessFile_abort ==
    /\ pc = "scan"
    /\ idx <= Len(listing)
    /\ LET file == listing[idx].name
           outcome == AnalyzeContent(listing[idx].decoded)
       IN
       IF ~Handled(file) THEN UNCHANGED <<results, errors>> /\ idx' = idx + 1
       ELSE IF Raised(outcome)
       THEN /\ errors' = Append(errors, <<file, outcome.exc>>)
            /\ idx' = Len(listing) + 1
            /\ UNCHANGED results
       ELSE /\ results' = ResultsSet(results, file, outcome.val)
            /\ idx' = idx + 1
            /\ UNCHANGED errors
    /\ UNCHANGED <<listing, cursor, stdout, pc, arg, ret>>

\* one iteration of `for file in os.listdir(directory)`
ProcessFile ==
    /\ pc = "scan"
    /\ idx <= Len(listing)
    /\ LET file == listing[idx].name
           outcome == AnalyzeContent(listing[idx].decoded)
       IN
       IF ~Handled(file) THEN UNCHANGED <<results, errors>>
       ELSE IF Raised(outcome)
       THEN /\ errors' = Append(errors, <<file, outcome.exc>>)
            /\ UNCHANGED results
       ELSE /\ results' = ResultsSet(results, file, outcome.val)
            /\ UNCHANGED errors
    /\ idx' = idx + 1
    /\ UNCHANGED <<listing, cursor, stdout, pc, arg, ret>>

\* `return results, errors`, and the report's loop starts
ReturnResults ==
    /\ pc = "scan"
    /\ idx > Len(listing)
    /\ pc' = "report"
    /\ cursor' = 1
    /\ UNCHANGED <<listing, idx, results, errors, stdout, arg, ret>>

Line(text, value) == [text |-> text, value |-> value]

Dashes == Line("------------------------------", "")

\* one iteration of `for file_name, details in results.items()`: a KeyError
\* on a details record without the summary keys ends the run
PrintResult ==
    /\ pc = "report"
    /\ cursor <= Len(results)
    /\ LET file_name == results[cursor].file
           details == results[cursor].details
           head == <<Line("Processing results for:", file_name), Dashes>>
       IN
       IF "Total Requests/Endpoints" \notin DOMAIN details
       THEN /\ stdout' = stdout \o head
            /\ pc' = "crashed"
            /\ UNCHANGED cursor
       ELSE /\ stdout' = stdout \o head \o
                   <<Line("Total Requests/Endpoints:", details["Total Requests/Endpoints"]),
                     Line("HTTP Methods Distribution:",
                          LET dist == details["HTTP Methods Distribution"] IN
                          [m \in {x \in DOMAIN dist : dist[x] > 0} |-> dist[m]]),
                     Line("Total Parameters:", details["Total Parameters"]),
                     Dashes>>
            /\ cursor' = cursor + 1
            /\ UNCHANGED pc
    /\ UNCHANGED <<listing, idx, results, errors, arg, ret>>

\* `if errors:` and its loop, then the run ends
PrintErrors ==
    /\ pc = "report"
    /\ cursor > Len(results)
    /\ stdout' = IF errors # <<>>
                 THEN stdout
                      \o <<Line("Errors encountered for the following files:", "")>>
                      \o [i \in 1..Len(errors) |-> Line(errors[i][1], errors[i][2])]
                 ELSE stdout
    /\ pc' = "exit"
    /\ UNCHANGED <<listing, idx, results, errors, cursor, arg, ret>>

Next == ProcessFile \/ ReturnResults \/ PrintResult \/ PrintErrors

Spec == Init /\ [][Next]_vars

-----------------------------------------------------------------------------
(* Properties of the batch run *)

ResultFiles == {results[i].file : i \in 1..Len(results)}

ErrorPositions(name) == {i \in 1..Len(errors) : errors[i][1] = name}

\* decoding the entry, classifying it or extracting from it raises
ProcessingRaises(entry) ==
    \/ Raised(entry.decoded)
    \/ Raised(identify_api_document(entry.decoded.val))
    \/ /\ identify_api_document(entry.decoded.val).val = "swagger"
       /\ Raised(parse_swagger_content(entry.decoded.val))
    \/ /\ identify_api_document(entry.decoded.val).val = "postman"
       /\ Raised(parse_postman_content(entry.decoded.val))

\* C2: every processed entry named .json, .yaml or .yml is in exactly one
\* of the two outputs, one results key or exactly one error pair; an entry
\* whose decode or extraction raises is in the error list and not in the
\* results, and the entries after it are still processed: the scan ends
\* only past the last entry.
C2_ExactlyOneOutput ==
    /\ \A j \in 1..(idx - 1) :
         LET entry == listing[j] IN
         Handled(entry.name) =>
           /\ (entry.name \in ResultFiles) # (ErrorPositions(entry.name) # {})
           /\ Cardinality(ErrorPositions(entry.name)) <= 1
           /\ Cardinality({i \in 1..Len(results) : results[i].file = entry.name}) <= 1
           /\ ProcessingRaises(entry) =>
                (entry.name \notin ResultFiles /\ ErrorPositions(entry.name) # {})
    /\ pc # "scan" => idx = Len(listing) + 1

\* a file that fails to decode, then one whose extraction raises, then one
\* that lands in the results
C2_Witness ==
    /\ pc = "report"
    /\ Len(listing) = 3
    /\ \A j \in 1..3 : Handled(listing[j].name)
    /\ Raised(listing[1].decoded)
    /\ ~Raised(listing[2].decoded) /\ ProcessingRaises(listing[2])
    /\ ~ProcessingRaises(listing[3])
    /\ Len(errors) = 2
    /\ ResultFiles = {listing[3].name}

\* the lines of one complete summary block for the results entry r
SummaryBlock(r) ==
    \E i \in 1..Len(stdout) :
        /\ stdout[i] = Line("Processing results for:", r.file)
        /\ i + 5 <= Len(stdout)
        /\ stdout[i + 2].text = "Total Requests/Endpoints:"
        /\ stdout[i + 3].text = "HTTP Methods Distribution:"
        /\ stdout[i + 4].text = "Total Parameters:"

\* the errors block: its heading, then one line per (filename, error) pair,
\* after every results line
ErrorsBlock ==
    \E i \in 1..Len(stdout) :
        /\ stdout[i].text = "Errors encountered for the following files:"
        /\ Len(stdout) = i + Len(errors)
        /\ \A k \in 1..Len(errors) : stdout[i + k] = Line(errors[k][1], errors[k][2])

\* C9: the run prints one summary block per entry of the results mapping
\* and then, when the error list is not empty, the errors block; this also
\* when the results hold the record of an unknown-type file.
C9_ReportReachesErrors ==
    pc \in {"exit", "crashed"} =>
        /\ \A i \in 1..Len(results) : SummaryBlock(results[i])
        /\ errors # <<>> => ErrorsBlock

====
